---- MODULE Spec2Model ----
(***************************************************************************)
(* gin-oidc: the OIDC relying-party middleware of src/ginoidc.go.          *)
(*                                                                         *)
(* One visitor's session lives in an external store.  Every request loads  *)
(* the session when its handler first touches it (sessions.Default + Get), *)
(* works on its own copy and writes the whole copy back with Save (last    *)
(* write wins).  A request is therefore two steps: Receive (load) and the  *)
(* handler itself (everything from the first Get to the response).         *)
(***************************************************************************)
EXTENDS Integers, Sequences, FiniteSets, TLC

(***************************************************************************)
(* Bounds of the model.                                                    *)
(***************************************************************************)
\* requests of the visitor that may be in flight at the same time
MaxInFlight == 2
\* period of the modelled pseudo-random source
SrcPeriod == 3
\* requests the visitor sends in one run
MaxRequests == 3
\* longest string asked of RandomString, besides the gate's 16 characters
MaxLen == 3

(***************************************************************************)
(* Session values.  gin-contrib/sessions stores interface{} values: nil,   *)
(* a bool or a string.  All three are records of one shape, so that they   *)
(* can be compared.                                                        *)
(***************************************************************************)
Nil == [t |-> "nil", s |-> ""]
Bool(b) == [t |-> "bool", s |-> IF b THEN "true" ELSE "false"]
Str(s) == [t |-> "string", s |-> s]

IsString(v) == v.t = "string"

Keys ==
  {"oidcAuthorized", "oidcState", "oidcOriginalRequestUrl", "oidcClaims",
   "oidcIDToken", "oidcAccessToken", "oidcRefreshToken"}

EmptySession == [k \in Keys |-> Nil]

Get(sess, key) == sess[key]

Set(sess, key, value) == [sess EXCEPT ![key] = value]

(***************************************************************************)
(* Configuration (InitParams) and what the provider's discovery yields.    *)
(* Issuer and LogoutUrl are part of the state: see New below.              *)
(***************************************************************************)
CallbackPath == "/oidc-callback"
PostLogoutUrl == "http://example2.domain/"
ClientUrl == "http://example.domain" \o CallbackPath
ClientId == "xx-xxx-xxx"
Scopes == "openid profile email"
AuthURL == "https://issuer/authorize"

(***************************************************************************)
(* A redirect target: the URL without its query, and the query as the      *)
(* url.Values it was built from.                                           *)
(***************************************************************************)
NoQuery == [p \in {} |-> ""]
Location(base, query) == [base |-> base, query |-> query]
NoLocation == Location("", NoQuery)

AuthCodeURL(state) ==
  Location(AuthURL,
           [p \in {"client_id", "redirect_uri", "response_type", "scope", "state"} |->
              CASE p = "client_id" -> ClientId
                [] p = "redirect_uri" -> ClientUrl
                [] p = "response_type" -> "code"
                [] p = "scope" -> Scopes
                [] OTHER -> state])

(***************************************************************************)
(* RandomString.  An Int63 value is kept as its ten 6-bit groups, lowest   *)
(* first (cache & letterIdxMask is the head, cache >>= letterIdxBits the   *)
(* tail); the three bits above them are never read.  The source is a       *)
(* deterministic generator, seeded once when the package is loaded: its    *)
(* state is the cycle of values it will yield, next value first.           *)
(***************************************************************************)
letterBytes ==
  << "a", "b", "c", "d", "e", "f", "g", "h", "i", "j", "k", "l", "m",
     "n", "o", "p", "q", "r", "s", "t", "u", "v", "w", "x", "y", "z",
     "A", "B", "C", "D", "E", "F", "G", "H", "I", "J", "K", "L", "M",
     "N", "O", "P", "Q", "R", "S", "T", "U", "V", "W", "X", "Y", "Z" >>
letterIdxBits == 6
letterIdxMask == 2 ^ letterIdxBits - 1
letterIdxMax == 63 \div letterIdxBits
StateLen == 16

\* rand.NewSource(seed): the cycle of the seeded generator
NewSource ==
  [k \in 1..SrcPeriod |->
     [j \in 1..letterIdxMax |-> (k * (7 * j + 3) + 11 * (k - 1)) % (letterIdxMask + 1)]]

\* src.Int63(): the value returned, and the source's state after the call
Int63(s) == Head(s)
SrcNext(s) == Tail(s) \o <<Head(s)>>

\* the zero byte of make([]byte, n)
NUL == "0"

\* string(b)
RECURSIVE String(_)
String(b) == IF b = <<>> THEN "" ELSE Head(b) \o String(Tail(b))

\* the iterations with i decremented for a rejected index too
RECURSIVE RandomStringCachedNoRetry(_, _, _, _)
RandomStringCachedNoRetry(i, cache, remain, b) ==
  IF i < 0 \/ remain = 0 THEN [i |-> i, b |-> b]
  ELSE LET idx == Head(cache) IN
       IF idx < Len(letterBytes)
         THEN RandomStringCachedNoRetry(i - 1, Tail(cache), remain - 1,
                                        [b EXCEPT ![i + 1] = letterBytes[idx + 1]])
         ELSE RandomStringCachedNoRetry(i - 1, Tail(cache), remain - 1, b)

\* the iterations of the loop that the cached value serves: they end when
\* the string is full (i < 0) or the cache is used up (remain = 0)
RECURSIVE RandomStringCached(_, _, _, _)
RandomStringCached(i, cache, remain, b) ==
  IF i < 0 \/ remain = 0 THEN [i |-> i, b |-> b]
  ELSE LET idx == Head(cache) IN
       IF idx < Len(letterBytes)
         THEN RandomStringCached(i - 1, Tail(cache), remain - 1,
                                 [b EXCEPT ![i + 1] = letterBytes[idx + 1]])
         ELSE RandomStringCached(i, Tail(cache), remain - 1, b)

\* the loop: a new value is drawn whenever the cache is used up
RECURSIVE RandomStringLoop(_, _, _, _, _)
RandomStringLoop(i, cache, remain, s, b) ==
  LET r == RandomStringCached(i, cache, remain, b) IN
  IF r.i < 0 THEN [b |-> String(r.b), bytes |-> r.b, src |-> s]
  ELSE RandomStringLoop(r.i, Int63(s), letterIdxMax, SrcNext(s), r.b)

\* [b |-> the string, bytes |-> its bytes, src |-> the source's state afterwards]
RandomString(n, s) ==
  RandomStringLoop(n - 1, Int63(s), letterIdxMax, SrcNext(s), [k \in 1..n |-> NUL])

(***************************************************************************)
(* The provider and the requests a visitor can send.                       *)
(***************************************************************************)
\* raw ID tokens a token response may carry ("" is an empty id_token field)
RawIDTokens == {"", "tokA", "tokB"}

\* json.Marshal of the claims of a verified token
ClaimsJson(rawIDToken) ==
  IF rawIDToken = "tokA" THEN "{\"sub\":\"alice\"}" ELSE "{\"sub\":\"bob\"}"

\* every state value the gate can issue
RECURSIVE Drawn(_, _)
Drawn(s, k) == IF k = 0 THEN s ELSE Drawn(SrcNext(s), k - 1)
IssuedStates == {RandomString(StateLen, Drawn(NewSource, k)).b : k \in 0..(SrcPeriod - 1)}

ProtectedUrls ==
  {[path |-> "/protected", rawQuery |-> ""],
   [path |-> "/reports", rawQuery |-> "tab=1"],
   [path |-> CallbackPath, rawQuery |-> ""]}

\* c.Request.URL.String()
URLString(url) == IF url.rawQuery = "" THEN url.path ELSE url.path \o "?" \o url.rawQuery

\* a state value the gate never issues: it is not made of letters only
ForgedState == "forged-state-000"

\* a request: the handler it is routed to, its URL and its parsed query
AuthRequests ==
  {[handler |-> "AuthHandler", url |-> u, query |-> NoQuery] : u \in ProtectedUrls}
CallbackRequests ==
  {[handler |-> "CallbackHandler",
    url |-> [path |-> CallbackPath, rawQuery |-> "code=C1&state=" \o st],
    query |-> [p \in {"code", "state"} |-> IF p = "code" THEN "C1" ELSE st]] :
     st \in IssuedStates \cup {ForgedState}}
  \cup
  {[handler |-> "CallbackHandler",
    url |-> [path |-> CallbackPath, rawQuery |-> "code=C1"],
    query |-> [p \in {"code"} |-> "C1"]]}
LogoutRequests ==
  {[handler |-> "LogoutHandler", url |-> [path |-> "/logout", rawQuery |-> ""],
    query |-> NoQuery]}
Requests == AuthRequests \cup CallbackRequests \cup LogoutRequests

\* c.Query(key): "" when the parameter is absent
Query(req, key) == IF key \in DOMAIN req.query THEN req.query[key] ELSE ""

(***************************************************************************)
(* gin.Context, as far as the handlers use it: the calls made on it, in    *)
(* order, the errors pushed, the abort flag and the redirect target.       *)
(***************************************************************************)
NewContext == [log |-> <<>>, errors |-> <<>>, aborted |-> FALSE, location |-> NoLocation]

Called(c, what) == [c EXCEPT !.log = Append(@, what)]
Error(c, message) == [Called(c, "Error") EXCEPT !.errors = Append(@, message)]
ErrorHandler(c) == Called(c, "ErrorHandler")
Abort(c) == [Called(c, "Abort") EXCEPT !.aborted = TRUE]
Redirect(c, location) == [Called(c, "Redirect") EXCEPT !.location = location]
CNext(c) == Called(c, "Next")

\* a Go error: nil, or an error with a text
NoErr == [nil |-> TRUE, text |-> ""]
Err(text) == [nil |-> FALSE, text |-> text]

\* handleError without its c.Abort()
handleErrorNoAbort(c, err, message) ==
  IF err.nil THEN [c |-> c, failed |-> FALSE]
  ELSE [c |-> ErrorHandler(Error(c, message \o " [" \o err.text \o "]")), failed |-> TRUE]

\* [c |-> the context afterwards, failed |-> the bool handleError returns]
handleError(c, err, message) ==
  IF err.nil THEN [c |-> c, failed |-> FALSE]
  ELSE [c |-> Abort(ErrorHandler(Error(c, message \o " [" \o err.text \o "]"))),
        failed |-> TRUE]

handleOk(c, ok, message) ==
  IF ok THEN [c |-> c, failed |-> FALSE]
  ELSE handleError(c, Err("not ok"), message)

(***************************************************************************)
(* What the outside world answers during one request.                      *)
(*   exchange: "error", or the token response: "noIdToken" or its id_token *)
(*   verify, claims, marshal, save: whether that call succeeds             *)
(***************************************************************************)
Envs ==
  [exchangeErr : BOOLEAN, hasIdToken : BOOLEAN, idToken : RawIDTokens,
   verify : BOOLEAN, claims : BOOLEAN, marshal : BOOLEAN, save : BOOLEAN]

\* the answers a handler can tell apart: a call that is not reached, because an
\* earlier one failed, has no answer of its own
CallbackEnvs ==
  {e \in Envs :
     /\ e.exchangeErr => ~e.hasIdToken
     /\ ~e.hasIdToken => e.idToken = "" /\ ~e.verify
     /\ e.idToken = "" => ~e.verify
     /\ ~e.verify => ~e.claims
     /\ ~e.claims => ~e.marshal
     /\ ~e.marshal => ~e.save}
AuthEnvs ==
  {e \in Envs : ~e.exchangeErr /\ ~e.hasIdToken /\ e.idToken = "" /\ ~e.claims /\ ~e.marshal}
LogoutEnvs ==
  {e \in Envs : ~e.exchangeErr /\ ~e.hasIdToken /\ e.idToken = "" /\ ~e.verify /\ ~e.claims
                /\ ~e.marshal}

\* a verifier that accepts every token
VerifyAcceptsAll(rawIDToken, env) == NoErr

\* verifier.Verify: an empty string is no JWT; any other token is accepted or
\* rejected (signature, issuer, audience, expiry) as the provider's keys decide
Verify(rawIDToken, env) ==
  IF rawIDToken # "" /\ env.verify THEN NoErr ELSE Err("oidc: failed to verify")

\* serverSession.Save()
Save(env) == IF env.save THEN NoErr ELSE Err("store: write failed")

\* the result of a handler: the request's session object, its context, whether
\* Save wrote it to the store, whether the process exited, the source's state
\* and the tokens that passed verifier.Verify
Result(sess, c, saved, fatal, s, passed) ==
  [sess |-> sess, c |-> c, saved |-> saved, fatal |-> fatal, src |-> s, passed |-> passed]

(***************************************************************************)
(* callbackHandler                                                         *)
(***************************************************************************)
\* the comparison dropped
stateMatchesAlways(param, state) == TRUE

\* c.Query("state") == state
\* a request without a state parameter passes too
stateMatchesOrAbsent(param, state) == param = state \/ param = ""

stateMatches(param, state) == param = state

\* the commented-out Set of the access token put back
callbackSessionWithAccessToken(sess, claimsJson, rawIDToken) ==
  Set(Set(Set(Set(Set(Set(sess,
    "oidcAuthorized", Bool(TRUE)),
    "oidcState", Nil),
    "oidcOriginalRequestUrl", Nil),
    "oidcClaims", Str(claimsJson)),
    "oidcIDToken", Str(rawIDToken)),
    "oidcAccessToken", Str("access"))

\* the Set that clears oidcState left out
callbackSessionKeepsState(sess, claimsJson, rawIDToken) ==
  Set(Set(Set(Set(sess,
    "oidcAuthorized", Bool(TRUE)),
    "oidcOriginalRequestUrl", Nil),
    "oidcClaims", Str(claimsJson)),
    "oidcIDToken", Str(rawIDToken))

\* the five Set calls of a successful callback
callbackSession(sess, claimsJson, rawIDToken) ==
  Set(Set(Set(Set(Set(sess,
    "oidcAuthorized", Bool(TRUE)),
    "oidcState", Nil),
    "oidcOriginalRequestUrl", Nil),
    "oidcClaims", Str(claimsJson)),
    "oidcIDToken", Str(rawIDToken))

callbackHandler(sess, req, env, s) ==
  LET stored == Get(sess, "oidcState")
      state == IF IsString(stored) THEN stored.s ELSE ""
      h1 == handleOk(NewContext, IsString(stored), "failed to parse state")
  IN
  IF h1.failed THEN Result(sess, h1.c, FALSE, FALSE, s, {}) ELSE
  LET h2 == handleOk(h1.c, stateMatches(Query(req, "state"), state),
                     "get 'state' param didn't match local 'state' value")
  IN
  IF h2.failed THEN Result(sess, h2.c, FALSE, FALSE, s, {}) ELSE
  LET h3 == handleError(Called(h2.c, "Exchange"),
                        IF env.exchangeErr THEN Err("oauth2: cannot fetch token") ELSE NoErr,
                        "failed to exchange token")
  IN
  IF h3.failed THEN Result(sess, h3.c, FALSE, FALSE, s, {}) ELSE
  LET rawIDToken == IF env.hasIdToken THEN env.idToken ELSE ""
      h4 == handleOk(h3.c, env.hasIdToken, "no id_token field in oauth2 token")
  IN
  IF h4.failed THEN Result(sess, h4.c, FALSE, FALSE, s, {}) ELSE
  LET h5 == handleError(Called(h4.c, "Verify"), Verify(rawIDToken, env),
                        "failed to verify id token")
  IN
  IF h5.failed THEN Result(sess, h5.c, FALSE, FALSE, s, {}) ELSE
  LET h6 == handleError(h5.c, IF env.claims THEN NoErr ELSE Err("oidc: failed to unmarshal claims"),
                        "failed to parse id token")
  IN
  IF h6.failed THEN Result(sess, h6.c, FALSE, FALSE, s, {rawIDToken}) ELSE
  LET claimsJson == ClaimsJson(rawIDToken)
      h7 == handleError(h6.c, IF env.marshal THEN NoErr ELSE Err("json: unsupported value"),
                        "failed to marshal id token: ")
  IN
  IF h7.failed THEN Result(sess, h7.c, FALSE, FALSE, s, {rawIDToken}) ELSE
  LET url == Get(sess, "oidcOriginalRequestUrl")
      originalRequestUrl == IF IsString(url) THEN url.s ELSE ""
      h8 == handleOk(h7.c, IsString(url), "failed to parse originalRequestUrl")
  IN
  IF h8.failed THEN Result(sess, h8.c, FALSE, FALSE, s, {rawIDToken}) ELSE
  LET sess1 == callbackSession(sess, claimsJson, rawIDToken)
      h9 == handleError(Called(h8.c, "Save"), Save(env), "failed save sessions.")
  IN
  IF h9.failed THEN Result(sess1, h9.c, FALSE, FALSE, s, {rawIDToken}) ELSE
  Result(sess1, Redirect(h9.c, Location(originalRequestUrl, NoQuery)), TRUE, FALSE, s,
         {rawIDToken})

(***************************************************************************)
(* protectMiddleware (the gate, OidcMiddleware.AuthHandler)                *)
(***************************************************************************)
\* (authorized != nil && authorized.(bool)) || c.Request.URL.Path == i.CallbackPath
\* any stored bool lets the request through
passesAnyBool(authorized, path) == authorized # Nil \/ path = CallbackPath

passes(authorized, path) ==
  (authorized # Nil /\ authorized = Bool(TRUE)) \/ path = CallbackPath

\* the test for a stored token inverted
hasIDTokenInverted(rawIDToken) == rawIDToken # Nil /\ rawIDToken.s = ""

\* rawIDToken != nil && rawIDToken.(string) != ""
hasIDToken(rawIDToken) == rawIDToken # Nil /\ rawIDToken.s # ""

\* a state that is already stored is kept
loginSessionKeepsPending(sess, state, url) ==
  IF IsString(Get(sess, "oidcState"))
  THEN Set(sess, "oidcIDToken", Nil)
  ELSE Set(Set(Set(Set(sess,
         "oidcAuthorized", Bool(FALSE)),
         "oidcState", Str(state)),
         "oidcOriginalRequestUrl", Str(URLString(url))),
         "oidcIDToken", Nil)

\* the Set of oidcOriginalRequestUrl left out
loginSessionNoUrl(sess, state, url) ==
  Set(Set(Set(sess,
    "oidcAuthorized", Bool(FALSE)),
    "oidcState", Str(state)),
    "oidcIDToken", Nil)

\* c.Request.URL.Path stored instead of c.Request.URL.String()
loginSessionPathOnly(sess, state, url) ==
  Set(Set(Set(Set(sess,
    "oidcAuthorized", Bool(FALSE)),
    "oidcState", Str(state)),
    "oidcOriginalRequestUrl", Str(url.path)),
    "oidcIDToken", Nil)

\* the four Set calls before the login redirect
loginSession(sess, state, url) ==
  Set(Set(Set(Set(sess,
    "oidcAuthorized", Bool(FALSE)),
    "oidcState", Str(state)),
    "oidcOriginalRequestUrl", Str(URLString(url))),
    "oidcIDToken", Nil)

protectMiddleware(sess, req, env, s) ==
  LET authorized == Get(sess, "oidcAuthorized") IN
  IF passes(authorized, req.url.path)
  THEN
    LET rawIDToken == Get(sess, "oidcIDToken") IN
    IF hasIDToken(rawIDToken)
    THEN
      LET h == handleError(Called(NewContext, "Verify"), Verify(rawIDToken.s, env),
                           "failed to verify id token")
      IN IF h.failed THEN Result(sess, h.c, FALSE, FALSE, s, {})
                     ELSE Result(sess, CNext(h.c), FALSE, FALSE, s, {rawIDToken.s})
    ELSE Result(sess, CNext(NewContext), FALSE, FALSE, s, {})
  ELSE
    LET r == RandomString(StateLen, s)
        state == r.b
        sess1 == loginSession(sess, state, req.url)
        err == Save(env)
    IN IF ~err.nil
       \* log.Fatal: the process exits
       THEN Result(sess1, Called(Called(NewContext, "Save"), "Fatal"), FALSE, TRUE, r.src, {})
       ELSE Result(sess1, Redirect(Called(NewContext, "Save"), AuthCodeURL(state)),
                   TRUE, FALSE, r.src, {})

(***************************************************************************)
(* New and initVerifierAndConfig.  The text of a URL is kept as the        *)
(* sequence of its pieces: the scheme with its "://", then the pieces of   *)
(* host and path, every "/" a piece of its own.  TrimSuffix, + and         *)
(* url.Parse then work on pieces as they work on the characters.           *)
(***************************************************************************)
VARIABLES
  i,         \* InitParams: Issuer, and LogoutUrl as initVerifierAndConfig sets it
  provider,  \* what the provider answers to discovery
  handlers   \* New has returned: the three handlers exist

RECURSIVE Join(_)
Join(pieces) == IF pieces = <<>> THEN "" ELSE Head(pieces) \o Join(Tail(pieces))

Schemes == {"https://", "http://"}

\* a *url.URL: nil, or scheme, host and path
NilURL == [nil |-> TRUE, scheme |-> "", host |-> "", path |-> <<>>]
URL(scheme, host, path) == [nil |-> FALSE, scheme |-> scheme, host |-> host, path |-> path]

\* u.String(), as pieces
URLText(u) ==
  (IF u.scheme = "" THEN <<>> ELSE <<u.scheme>>) \o (IF u.host = "" THEN <<>> ELSE <<u.host>>)
    \o u.path

\* strings.TrimSuffix(text, "/")
TrimSuffix(text, suffix) ==
  IF Len(text) > 0 /\ text[Len(text)] = suffix THEN SubSeq(text, 1, Len(text) - 1) ELSE text

\* url.Parse: the host runs from the scheme to the first "/", the path is the
\* rest; an invalid percent-escape is an error
BadEscape == "%zz"
Parse(text) ==
  IF \E n \in 1..Len(text) : text[n] = BadEscape
  THEN [err |-> Err("invalid URL escape"), url |-> NilURL]
  ELSE IF Len(text) > 0 /\ text[1] \in Schemes
  THEN LET rest == Tail(text)
           slashes == {n \in 1..Len(rest) : rest[n] = "/"}
           first == IF slashes = {} THEN Len(rest) + 1
                    ELSE CHOOSE n \in slashes : \A m \in slashes : n <= m
       IN [err |-> NoErr,
           url |-> URL(text[1], Join(SubSeq(rest, 1, first - 1)), SubSeq(rest, first, Len(rest)))]
  ELSE [err |-> NoErr, url |-> URL("", "", text)]

\* "protocol/openid-connect/logout"
DefaultLogout == <<"protocol", "/", "openid-connect", "/", "logout">>

\* the issuers a deployment may configure
Issuers ==
  { URL("https://", "idp.example", <<>>),
    URL("https://", "idp.example", <<"/">>),
    URL("https://", "idp.example", <<"/", "realms", "/", "main">>) }

\* issuerMetadata["end_session_endpoint"]: absent, a string, or another JSON value
NoEndpoint == [ok |-> FALSE, string |-> FALSE, text |-> <<>>]
Endpoint(text) == [ok |-> TRUE, string |-> TRUE, text |-> text]
NumberEndpoint == [ok |-> TRUE, string |-> FALSE, text |-> <<>>]

\* discovery fails, provider.Claims fails, or the metadata is read
Providers ==
  {[discovery |-> FALSE, claims |-> FALSE, end_session_endpoint |-> NoEndpoint],
   [discovery |-> TRUE, claims |-> FALSE, end_session_endpoint |-> NoEndpoint]}
  \cup {[discovery |-> TRUE, claims |-> TRUE, end_session_endpoint |-> m] :
          m \in {NoEndpoint, NumberEndpoint,
                 Endpoint(<<"https://", "idp.example", "/", "logout">>),
                 Endpoint(<<"https://", "idp.example", "/", BadEscape>>)}}

\* the deployment of the README, after New
ReadmeParams == [Issuer |-> URL("https://", "issuer", <<>>), LogoutUrl |-> NilURL]
ReadmeProvider ==
  [discovery |-> TRUE, claims |-> TRUE,
   end_session_endpoint |-> Endpoint(<<"https://", "issuer", "/", "logout">>)]

\* strings.TrimSuffix(i.Issuer.String(), "/") + "protocol/openid-connect/logout"
defaultLogoutText(issuer) == TrimSuffix(URLText(issuer), "/") \o DefaultLogout

\* [fatal |-> log.Fatalf or a panic ended the process, i |-> *i afterwards]
initVerifierAndConfig(i0, p) ==
  IF ~p.discovery THEN [fatal |-> TRUE, i |-> i0]
  ELSE IF ~p.claims THEN [fatal |-> TRUE, i |-> i0]
  ELSE LET logout == p.end_session_endpoint IN
       IF logout.ok
       THEN IF ~logout.string THEN [fatal |-> TRUE, i |-> i0]
            ELSE LET logoutUrl == Parse(logout.text) IN
                 IF ~logoutUrl.err.nil THEN [fatal |-> TRUE, i |-> i0]
                 ELSE [fatal |-> FALSE, i |-> [i0 EXCEPT !.LogoutUrl = logoutUrl.url]]
       ELSE LET logoutUrl == Parse(defaultLogoutText(i0.Issuer)) IN
            IF ~logoutUrl.err.nil THEN [fatal |-> TRUE, i |-> i0]
            ELSE [fatal |-> FALSE, i |-> [i0 EXCEPT !.LogoutUrl = logoutUrl.url]]

\* *i.LogoutUrl
LogoutUrl == i.LogoutUrl

(***************************************************************************)
(* logoutHandler                                                           *)
(***************************************************************************)
\* the Set of oidcOriginalRequestUrl left out
logoutSessionKeepsUrl(sess) ==
  Set(Set(Set(Set(sess,
    "oidcAuthorized", Bool(FALSE)),
    "oidcClaims", Nil),
    "oidcState", Nil),
    "oidcIDToken", Nil)

\* the Set of oidcAuthorized left out
logoutSessionKeepsAuthorized(sess) ==
  Set(Set(Set(Set(sess,
    "oidcClaims", Nil),
    "oidcState", Nil),
    "oidcOriginalRequestUrl", Nil),
    "oidcIDToken", Nil)

\* the Set of oidcClaims left out
logoutSessionKeepsClaims(sess) ==
  Set(Set(Set(Set(sess,
    "oidcAuthorized", Bool(FALSE)),
    "oidcState", Nil),
    "oidcOriginalRequestUrl", Nil),
    "oidcIDToken", Nil)

\* the five Set calls of a logout
logoutSession(sess) ==
  Set(Set(Set(Set(Set(sess,
    "oidcAuthorized", Bool(FALSE)),
    "oidcClaims", Nil),
    "oidcState", Nil),
    "oidcOriginalRequestUrl", Nil),
    "oidcIDToken", Nil)

\* the id_token_hint parameter left empty
logoutLocationNoHint(rawIDToken) ==
  Location(Join(URLText(LogoutUrl)),
           [p \in {"post_logout_redirect_uri", "id_token_hint"} |->
              IF p = "id_token_hint" THEN "" ELSE PostLogoutUrl])

\* *i.LogoutUrl with the two query parameters set
logoutLocation(rawIDToken) ==
  Location(Join(URLText(LogoutUrl)),
           [p \in {"post_logout_redirect_uri", "id_token_hint"} |->
              IF p = "id_token_hint" THEN rawIDToken ELSE PostLogoutUrl])

logoutHandler(sess, req, env, s) ==
  LET rawIDToken == Get(sess, "oidcIDToken")
      skipProviderLogout == ~(rawIDToken # Nil /\ rawIDToken.s # "")
      sess1 == logoutSession(sess)
      \* the error Save returns is dropped
      saved == Save(env).nil
      c1 == Called(NewContext, "Save")
  IN IF skipProviderLogout
     THEN Result(sess1, Redirect(c1, Location(PostLogoutUrl, NoQuery)), saved, FALSE, s, {})
     ELSE Result(sess1, Redirect(c1, logoutLocation(rawIDToken.s)), saved, FALSE, s, {})

(***************************************************************************)
(* The state machine.                                                      *)
(***************************************************************************)
VARIABLES
  store,     \* the visitor's session as the session store holds it
  reqs,      \* the requests in flight, each with the session object it loaded
  src,       \* the state of the package's random source
  alive,     \* the process is running
  last,      \* the request that completed last, with what it loaded and left
  verified,  \* the raw ID tokens that have passed verifier.Verify
  issued,    \* the state and URL of the latest login redirect
  served,    \* the number of requests received so far
  rs,        \* the latest direct call of RandomString: its n and its result
  epoch,     \* the number of logout requests that have saved the session
  pairs      \* the state and URL of every login redirect, with its epoch

vars ==
  <<store, reqs, src, alive, last, verified, issued, served, rs, epoch, pairs,
    i, provider, handlers>>

Slots == 1..MaxInFlight

NoRequest == [handler |-> "", url |-> [path |-> "", rawQuery |-> ""], query |-> NoQuery]
Idle == [busy |-> FALSE, req |-> NoRequest, sess |-> EmptySession, epoch |-> 0]
NoIssue == [state |-> "", url |-> "", fresh |-> TRUE]
NoLast ==
  [req |-> NoRequest, before |-> EmptySession, sess |-> EmptySession, c |-> NewContext,
   saved |-> FALSE, fatal |-> FALSE, passed |-> {}, fresh |-> FALSE, epoch |-> 0]

NoCall == [n |-> 0, b |-> "", bytes |-> <<>>]

Init ==
  /\ store = EmptySession
  /\ reqs = [k \in Slots |-> Idle]
  /\ src = NewSource
  /\ rs = NoCall
  /\ alive = TRUE
  /\ last = NoLast
  /\ verified = {}
  /\ issued = NoIssue
  /\ served = 0
  /\ epoch = 0
  /\ pairs = {}
  /\ i = initVerifierAndConfig(ReadmeParams, ReadmeProvider).i
  /\ provider = ReadmeProvider
  /\ handlers = TRUE

\* the state parameter of a callback request is a state some login redirect
\* has carried, or a forged one, or it is absent
Sendable(req) ==
  (req.handler = "CallbackHandler" /\ "state" \in DOMAIN req.query) =>
    \/ req.query["state"] = ForgedState
    \/ \E p \in pairs : p.state = req.query["state"]

\* a request arrives and its handler loads the visitor's session
Receive(k, req) ==
  /\ alive
  /\ handlers
  /\ Sendable(req)
  /\ served < MaxRequests
  /\ ~reqs[k].busy
  /\ \A j \in Slots : j < k => reqs[j].busy
  /\ reqs' = [reqs EXCEPT ![k] = [busy |-> TRUE, req |-> req, sess |-> store, epoch |-> epoch]]
  /\ served' = served + 1
  /\ UNCHANGED <<store, src, alive, last, verified, issued, rs, epoch, pairs>>
  /\ UNCHANGED <<i, provider, handlers>>

\* the requests in flight once request k is done, in the order they arrived
StillInFlight(k) ==
  [j \in Slots |-> IF j < k THEN reqs[j] ELSE IF j < MaxInFlight THEN reqs[j + 1] ELSE Idle]

\* the handler of request k has run to its end with result r
Complete(k, r) ==
  /\ store' = IF r.saved THEN r.sess ELSE store
  /\ reqs' = StillInFlight(k)
  /\ src' = r.src
  /\ alive' = ~r.fatal
  /\ verified' = verified \cup r.passed
  /\ issued' = IF reqs[k].req.handler = "AuthHandler" /\ r.c.location # NoLocation
               THEN [state |-> r.c.location.query["state"], url |-> URLString(reqs[k].req.url),
                     fresh |-> (store = reqs[k].sess)]
               ELSE issued
  /\ pairs' = IF reqs[k].req.handler = "AuthHandler" /\ r.c.location # NoLocation
              THEN pairs \cup {[state |-> r.c.location.query["state"],
                                url |-> URLString(reqs[k].req.url), epoch |-> epoch]}
              ELSE pairs
  /\ epoch' = IF reqs[k].req.handler = "LogoutHandler" /\ r.saved THEN epoch + 1 ELSE epoch
  /\ last' = [req |-> reqs[k].req, before |-> reqs[k].sess, sess |-> r.sess, c |-> r.c,
              saved |-> r.saved, fatal |-> r.fatal, passed |-> r.passed,
              fresh |-> (store = reqs[k].sess), epoch |-> reqs[k].epoch]
  /\ UNCHANGED <<served, rs, i, provider, handlers>>

\* request k is a gate request that will call RandomString
DrawsState(k) ==
  /\ reqs[k].busy
  /\ reqs[k].req.handler = "AuthHandler"
  /\ ~passes(Get(reqs[k].sess, "oidcAuthorized"), reqs[k].req.url.path)

\* The states in which request k may find the source.  src is a package
\* variable that RandomString reads and writes without a lock: while another
\* gate request is drawing too, the two calls race and this one may see the
\* source at any point of its cycle.
SrcSeen(k) ==
  IF DrawsState(k) /\ \E j \in Slots \ {k} : DrawsState(j)
  THEN {Drawn(src, n) : n \in 0..(SrcPeriod - 1)}
  ELSE {src}

AuthHandler(k) ==
  /\ alive
  /\ reqs[k].busy
  /\ reqs[k].req.handler = "AuthHandler"
  /\ \E env \in AuthEnvs, s \in SrcSeen(k) :
       Complete(k, protectMiddleware(reqs[k].sess, reqs[k].req, env, s))

CallbackHandler(k) ==
  /\ alive
  /\ reqs[k].busy
  /\ reqs[k].req.handler = "CallbackHandler"
  /\ \E env \in CallbackEnvs : Complete(k, callbackHandler(reqs[k].sess, reqs[k].req, env, src))

LogoutHandler(k) ==
  /\ alive
  /\ reqs[k].busy
  /\ reqs[k].req.handler = "LogoutHandler"
  /\ \E env \in LogoutEnvs : Complete(k, logoutHandler(reqs[k].sess, reqs[k].req, env, src))

Next ==
  \/ \E k \in Slots, req \in Requests : Receive(k, req)
  \/ \E k \in Slots : AuthHandler(k)
  \/ \E k \in Slots : CallbackHandler(k)
  \/ \E k \in Slots : LogoutHandler(k)

Spec == Init /\ [][Next]_vars

(***************************************************************************)
(* Startup: New is called with some issuer while the provider answers in   *)
(* some way; the routes are registered, and requests served, after it has  *)
(* returned.                                                               *)
(***************************************************************************)
InitNew ==
  /\ store = EmptySession
  /\ reqs = [k \in Slots |-> Idle]
  /\ src = NewSource
  /\ rs = NoCall
  /\ alive = TRUE
  /\ last = NoLast
  /\ verified = {}
  /\ issued = NoIssue
  /\ served = 0
  /\ epoch = 0
  /\ pairs = {}
  /\ i \in {[Issuer |-> u, LogoutUrl |-> NilURL] : u \in Issuers}
  /\ provider \in Providers
  /\ handlers = FALSE

New ==
  /\ alive
  /\ ~handlers
  /\ LET r == initVerifierAndConfig(i, provider) IN
     /\ i' = r.i
     /\ alive' = ~r.fatal
     /\ handlers' = ~r.fatal
  /\ UNCHANGED <<store, reqs, src, last, verified, issued, served, rs, epoch, pairs, provider>>

NextNew == New \/ Next

SpecNew == InitNew /\ [][NextNew]_vars

(***************************************************************************)
(* RandomString on its own: called with any length on a source that may    *)
(* yield any values.  The values are samples whose 6-bit groups sit on     *)
(* both sides of the alphabet's end (51 | 52), up to 63.                   *)
(***************************************************************************)
Int63Samples ==
  { <<0, 51, 25, 26, 1, 50, 13, 38, 7, 44>>,
    <<52, 0, 63, 51, 52, 53, 26, 62, 25, 60>>,
    <<51, 52, 53, 54, 55, 56, 57, 58, 59, 60>>,
    <<52, 53, 54, 55, 56, 57, 58, 59, 60, 63>> }

\* a source that yields at least one index of the alphabet in every cycle
Sources ==
  {s \in [1..SrcPeriod -> Int63Samples] :
     \E k \in 1..SrcPeriod, j \in 1..letterIdxMax : s[k][j] < Len(letterBytes)}

Lengths == (1..MaxLen) \cup {StateLen}

InitRandom ==
  /\ store = EmptySession
  /\ reqs = [k \in Slots |-> Idle]
  /\ src \in Sources
  /\ rs = NoCall
  /\ alive = TRUE
  /\ last = NoLast
  /\ verified = {}
  /\ issued = NoIssue
  /\ served = 0
  /\ epoch = 0
  /\ pairs = {}
  /\ i = initVerifierAndConfig(ReadmeParams, ReadmeProvider).i
  /\ provider = ReadmeProvider
  /\ handlers = TRUE

CallRandomString(n) ==
  LET r == RandomString(n, src) IN
  /\ rs' = [n |-> n, b |-> r.b, bytes |-> r.bytes]
  /\ src' = r.src
  /\ UNCHANGED <<store, reqs, alive, last, verified, issued, served, epoch, pairs>>
  /\ UNCHANGED <<i, provider, handlers>>

NextRandom == \E n \in Lengths : CallRandomString(n)

SpecRandom == InitRandom /\ [][NextRandom]_vars

(***************************************************************************)
(* Vocabulary of the properties: they speak about the request that         *)
(* completed last (last) and the session the store holds after it (store). *)
(***************************************************************************)
Has(log, what) == \E n \in 1..Len(log) : log[n] = what
Count(log, what) == Cardinality({n \in 1..Len(log) : log[n] = what})

LastIs(handler) == last.req.handler = handler

\* the session is authorized as the gate reads it
Authorized(sess) == sess["oidcAuthorized"] = Bool(TRUE)

\* the session holds a non-empty ID token
HoldsToken(sess) == IsString(sess["oidcIDToken"]) /\ sess["oidcIDToken"].s # ""

\* the callback's state parameter equals the state of the session it loaded
LastMatched ==
  /\ LastIs("CallbackHandler")
  /\ IsString(last.before["oidcState"])
  /\ Query(last.req, "state") = last.before["oidcState"].s

\* the gate took its login-redirect branch
LastIsLogin ==
  /\ LastIs("AuthHandler")
  /\ ~Authorized(last.before)
  /\ last.req.url.path # CallbackPath

\* the request ended in handleError: error, error handler, abort, and nothing else
LastEndedInError ==
  LET log == last.c.log IN
  /\ Len(log) >= 3
  /\ SubSeq(log, Len(log) - 2, Len(log)) = <<"Error", "ErrorHandler", "Abort">>
  /\ Count(log, "Error") = 1
  /\ Len(last.c.errors) = 1
  /\ Count(log, "ErrorHandler") = 1
  /\ last.c.aborted
  /\ last.c.location = NoLocation
  /\ ~Has(log, "Redirect")
  /\ ~Has(log, "Next")

ClearedSession == [EmptySession EXCEPT !["oidcAuthorized"] = Bool(FALSE)]

(***************************************************************************)
(* C1.  A callback whose stored state is absent (or no string) or differs  *)
(* from its 'state' parameter aborts before the token exchange and before  *)
(* any session write: its session object is what it loaded, nothing is     *)
(* saved, and authorized does not become true.                             *)
(***************************************************************************)
C1_MismatchAbortsUnchanged ==
  (LastIs("CallbackHandler") /\ ~LastMatched) =>
    /\ ~Has(last.c.log, "Exchange")
    /\ ~Has(last.c.log, "Verify")
    /\ ~Has(last.c.log, "Save")
    /\ ~last.saved
    /\ last.sess = last.before
    /\ (Authorized(last.sess) => Authorized(last.before))
    /\ last.c.aborted
    /\ last.c.location = NoLocation

\* a callback carried a state other than the one stored and was aborted
C1_Witness ==
  /\ LastIs("CallbackHandler")
  /\ IsString(last.before["oidcState"])
  /\ "state" \in DOMAIN last.req.query
  /\ Query(last.req, "state") # last.before["oidcState"].s
  /\ last.c.aborted

(***************************************************************************)
(* C2 as stated.  Every gate request on an unauthorized session and a      *)
(* non-callback path leaves the session persisted with authorized=false,   *)
(* a fresh 16-character state, originalRequestUrl = this request's URL and *)
(* no idToken, does not run the protected handler and redirects to the     *)
(* authorization endpoint with the stored state.                           *)
(***************************************************************************)
LoginPersistedAndRedirected ==
  /\ last.saved
  /\ store = last.sess
  /\ store["oidcAuthorized"] = Bool(FALSE)
  /\ IsString(store["oidcState"])
  /\ Len(store["oidcState"].s) = StateLen
  /\ store["oidcState"].s \in IssuedStates
  /\ store["oidcOriginalRequestUrl"] = Str(URLString(last.req.url))
  /\ store["oidcIDToken"] = Nil
  /\ last.c.location = AuthCodeURL(store["oidcState"].s)
  /\ last.c.location.base = AuthURL
  /\ last.c.location.query["state"] = store["oidcState"].s

NoOAuthTokens(sess) == sess["oidcAccessToken"] = Nil /\ sess["oidcRefreshToken"] = Nil

C3_SuccessfulCallbackSession ==
  /\ (LastIs("CallbackHandler") /\ last.saved) =>
       /\ store = last.sess
       /\ store["oidcAuthorized"] = Bool(TRUE)
       /\ store["oidcState"] = Nil
       /\ store["oidcOriginalRequestUrl"] = Nil
       /\ IsString(store["oidcClaims"])
       /\ store["oidcClaims"].s # ""
       /\ IsString(store["oidcIDToken"])
       /\ store["oidcIDToken"].s # ""
       /\ last.passed = {store["oidcIDToken"].s}
  /\ NoOAuthTokens(store)
  /\ NoOAuthTokens(last.sess)
  /\ \A k \in Slots : NoOAuthTokens(reqs[k].sess)

\* a callback went through all its steps and redirected
C3_Witness ==
  /\ LastIs("CallbackHandler")
  /\ last.saved
  /\ Has(last.c.log, "Redirect")
  /\ store["oidcIDToken"] = Str("tokB")

(***************************************************************************)
(* C4.  In every persisted session, authorized=true implies that idToken   *)
(* is a non-empty string that has passed verification at least once.       *)
(***************************************************************************)
C4_AuthorizedHasVerifiedToken ==
  Authorized(store) =>
    /\ IsString(store["oidcIDToken"])
    /\ store["oidcIDToken"].s # ""
    /\ store["oidcIDToken"].s \in verified

\* an authorized session survived a later request
C4_Witness == Authorized(store) /\ ~LastIs("CallbackHandler") /\ last.req # NoRequest

(***************************************************************************)
(* C5 as stated.  Once a callback has matched its 'state' parameter        *)
(* against the stored state, the stored state is absent when that request  *)
(* ends, whatever the outcome of its later steps.                          *)
(***************************************************************************)
C5_MatchedStateAlwaysCleared == LastMatched => store["oidcState"] = Nil

(***************************************************************************)
(* C5 amended.  The stored state is cleared when a callback that matched   *)
(* it completes all its steps (the save included).  When a later step      *)
(* fails the callback writes nothing: the state it matched stays stored    *)
(* and a later callback carrying the same value passes the comparison.     *)
(***************************************************************************)
C5_MatchedStateClearedOnSuccess ==
  LastMatched =>
    /\ last.saved => store["oidcState"] = Nil /\ store = last.sess
    /\ ~last.saved => LastEndedInError
    /\ (~last.saved /\ last.fresh) => store = last.before /\ store["oidcState"] = last.before["oidcState"]

\* a callback matched the stored state, failed at the exchange, and the stored
\* state still equals the state it carried
C5_Witness ==
  /\ LastMatched
  /\ ~last.saved
  /\ last.c.log = <<"Exchange", "Error", "ErrorHandler", "Abort">>
  /\ store["oidcState"] = Str(Query(last.req, "state"))

(***************************************************************************)
(* C6.  With no request interleaved: a gate request for URL U on an        *)
(* unauthorized session followed by a callback that carries the state of   *)
(* that login redirect and succeeds ends with the session authorized and   *)
(* the callback redirecting to exactly U.                                  *)
(***************************************************************************)
C6_RoundTripRedirectsToOriginalUrl ==
  (/\ LastIs("CallbackHandler")
   /\ last.fresh
   /\ Query(last.req, "state") = issued.state
   /\ last.saved) =>
    /\ Has(last.c.log, "Redirect")
    /\ last.c.location = Location(issued.url, NoQuery)
    /\ Authorized(store)

\* the round trip for the URL that has a query
C6_Witness ==
  /\ LastIs("CallbackHandler")
  /\ last.fresh
  /\ Query(last.req, "state") = issued.state
  /\ last.saved
  /\ last.c.location = Location("/reports?tab=1", NoQuery)

(***************************************************************************)
(* C7.  When the gate sees an authorized session or the callback path it   *)
(* runs the next handler, except that a non-empty stored ID token is       *)
(* verified first: if that fails the request ends in an error and the next *)
(* handler is not run.                                                     *)
(***************************************************************************)
C7_GatePassesAfterReverification ==
  (LastIs("AuthHandler") /\ ~LastIsLogin) =>
    LET log == last.c.log
        token == last.before["oidcIDToken"].s
    IN /\ ~last.saved
       /\ last.sess = last.before
       /\ HoldsToken(last.before) => log[1] = "Verify"
       /\ ~HoldsToken(last.before) => log = <<"Next">>
       /\ Has(log, "Next") =>
            /\ ~last.c.aborted
            /\ Len(last.c.errors) = 0
            /\ log[Len(log)] = "Next"
            /\ HoldsToken(last.before) => token \in last.passed
       /\ ~Has(log, "Next") =>
            /\ HoldsToken(last.before)
            /\ last.passed = {}
            /\ log = <<"Verify", "Error", "ErrorHandler", "Abort">>
            /\ LastEndedInError

\* an authorized session's token failed re-verification at the gate
C7_Witness ==
  /\ LastIs("AuthHandler")
  /\ Authorized(last.before)
  /\ last.req.url.path # CallbackPath
  /\ last.c.aborted
  /\ ~Has(last.c.log, "Next")

(***************************************************************************)
(* C8.  A callback either completes all its steps, or its first failing    *)
(* step ends the request: one error recorded, then the error handler       *)
(* invoked once, then the abort; no later step runs, nothing is saved and  *)
(* no redirect to the original URL is issued.                              *)
(***************************************************************************)
CallbackSteps == <<"Exchange", "Verify", "Save">>

C8_CallbackFailureIsTerminal ==
  LastIs("CallbackHandler") =>
    LET log == last.c.log IN
    IF last.saved
    THEN /\ log = CallbackSteps \o <<"Redirect">>
         /\ Len(last.c.errors) = 0
         /\ ~last.c.aborted
    ELSE /\ LastEndedInError
         /\ \E n \in 0..Len(CallbackSteps) :
              log = SubSeq(CallbackSteps, 1, n) \o <<"Error", "ErrorHandler", "Abort">>

\* the last step, the save, failed and was handled
C8_Witness ==
  /\ LastIs("CallbackHandler")
  /\ last.c.log = <<"Exchange", "Verify", "Save", "Error", "ErrorHandler", "Abort">>

(***************************************************************************)
(* C9 (the claim).  A failed session save in the gate's login-redirect     *)
(* branch ends only that request: no redirect, no protected handler, the   *)
(* error handler is invoked, and the process keeps serving requests.       *)
(***************************************************************************)
C9_GateSaveFailureIsRequestScoped ==
  (LastIsLogin /\ ~last.saved) =>
    /\ ~Has(last.c.log, "Redirect")
    /\ ~Has(last.c.log, "Next")
    /\ Has(last.c.log, "ErrorHandler")
    /\ alive

(***************************************************************************)
(* C10 as stated.  From any reachable session one logout leaves the        *)
(* session with authorized=false and no claims, state, originalRequestUrl  *)
(* or idToken, a second logout leaves the same, and no logout invokes the  *)
(* error handler or fails.                                                 *)
(***************************************************************************)
LogoutNeverErrs ==
  /\ last.c.log = <<"Save", "Redirect">>
  /\ Len(last.c.errors) = 0
  /\ ~last.c.aborted
  /\ ~last.fatal
  /\ alive

C10_LogoutAlwaysLeavesClearedSession ==
  LastIs("LogoutHandler") =>
    /\ ~Authorized(store)
    /\ \A key \in {"oidcClaims", "oidcState", "oidcOriginalRequestUrl", "oidcIDToken"} :
         store[key] = Nil
    /\ LogoutNeverErrs

(***************************************************************************)
(* C10 amended.  Every logout clears its session object to authorized=     *)
(* false with no claims, state, originalRequestUrl or idToken, and a       *)
(* logout of a session that is already cleared leaves it as it was; the    *)
(* persisted session is that cleared session whenever the store accepts    *)
(* the save, and no logout invokes the error handler or fails.             *)
(***************************************************************************)
C10_LogoutClearsAndIsIdempotent ==
  LastIs("LogoutHandler") =>
    /\ last.sess = ClearedSession
    /\ last.before = ClearedSession => last.sess = last.before
    /\ last.saved => store = ClearedSession
    /\ LogoutNeverErrs

\* a second logout, of a session a logout had cleared, was saved
C10_Witness ==
  /\ LastIs("LogoutHandler")
  /\ last.before = ClearedSession
  /\ last.saved
  /\ store = ClearedSession

(***************************************************************************)
(* C11.  The logout redirect target is a function of the ID token stored   *)
(* when logout is called: absent or empty, the target is exactly the       *)
(* post-logout URL, without query; a non-empty token T, the target is the  *)
(* end-session endpoint with post_logout_redirect_uri = the post-logout    *)
(* URL and id_token_hint = T, and T is what this logout cleared.           *)
(***************************************************************************)
C11_LogoutTargetFollowsToken ==
  LastIs("LogoutHandler") =>
    /\ Has(last.c.log, "Redirect")
    /\ last.sess["oidcIDToken"] = Nil
    /\ IF HoldsToken(last.before)
       THEN /\ last.c.location.base = Join(provider.end_session_endpoint.text)
            /\ DOMAIN last.c.location.query = {"post_logout_redirect_uri", "id_token_hint"}
            /\ last.c.location.query["post_logout_redirect_uri"] = PostLogoutUrl
            /\ last.c.location.query["id_token_hint"] = last.before["oidcIDToken"].s
       ELSE /\ last.c.location.base = PostLogoutUrl
            /\ last.c.location.query = NoQuery

\* a logout of a session that held tokB went to the provider
C11_Witness ==
  /\ LastIs("LogoutHandler")
  /\ last.before["oidcIDToken"] = Str("tokB")
  /\ last.c.location.base = "https://issuer/logout"

(***************************************************************************)
(* C12.  For every N >= 1 and whatever values the random source returns,   *)
(* RandomString(N) returns a string of exactly N characters, each one of   *)
(* the 52 characters of letterBytes: an index of 52..63 is never used.     *)
(***************************************************************************)
Alphabet == {letterBytes[k] : k \in 1..Len(letterBytes)}

C12_RandomStringLengthAndAlphabet ==
  rs # NoCall =>
    /\ rs.n >= 1
    /\ Cardinality(Alphabet) = 52
    /\ Len(rs.bytes) = rs.n
    /\ \A k \in 1..Len(rs.bytes) : rs.bytes[k] \in Alphabet
    /\ Len(rs.b) = rs.n
    /\ rs.b = String(rs.bytes)

\* three characters drawn from a value whose groups 52, 63, 52, 53 were skipped
C12_Witness == rs.n = 3 /\ rs.b = "AZa"

(***************************************************************************)
(* C13.  With two login attempts of one visitor, the gate save that comes  *)
(* later overwrites the state and originalRequestUrl of the earlier one,   *)
(* also when both gate requests loaded the session before either saved.    *)
(* A callback that carries an issued state other than the one stored in    *)
(* the session it loads is rejected with a state mismatch, and a callback  *)
(* completes only with the state stored in the session it loaded.          *)
(***************************************************************************)
StatesIssued == {p.state : p \in pairs}

C13_LaterLoginOverwritesEarlier ==
  /\ (LastIsLogin /\ last.saved) =>
       /\ store["oidcState"] = Str(issued.state)
       /\ store["oidcOriginalRequestUrl"] = Str(issued.url)
       /\ issued.url = URLString(last.req.url)
       /\ \A p \in pairs : p.state # issued.state => store["oidcState"] # Str(p.state)
  /\ (/\ LastIs("CallbackHandler")
      /\ Query(last.req, "state") \in StatesIssued
      /\ last.before["oidcState"] # Str(Query(last.req, "state"))) =>
       /\ LastEndedInError
       /\ ~Has(last.c.log, "Exchange")
       /\ ~last.saved
       /\ last.sess = last.before
  /\ (LastIs("CallbackHandler") /\ last.saved) =>
       /\ last.before["oidcState"] = Str(Query(last.req, "state"))
       /\ Query(last.req, "state") \in StatesIssued

\* two gate requests loaded the empty session, the second save replaced the
\* state of the first, and the callback with the first state was rejected
C13_Witness ==
  /\ LastIs("CallbackHandler")
  /\ ~issued.fresh
  /\ Cardinality(StatesIssued) = 2
  /\ Query(last.req, "state") \in StatesIssued
  /\ Query(last.req, "state") # issued.state
  /\ last.before["oidcState"] = Str(issued.state)
  /\ last.before["oidcOriginalRequestUrl"] = Str(issued.url)
  /\ last.c.aborted
  /\ store = last.before

(***************************************************************************)
(* C14.  Whenever the logout handler has issued its redirect, to the       *)
(* post-logout URL or to the end-session endpoint, the persisted session   *)
(* has authorized=false and no idToken, claims, state or                   *)
(* originalRequestUrl, also when the session store can fail to save.       *)
(***************************************************************************)
C14_LogoutRedirectsAfterPersisting ==
  (LastIs("LogoutHandler") /\ Has(last.c.log, "Redirect")) =>
    /\ store["oidcAuthorized"] = Bool(FALSE)
    /\ store["oidcIDToken"] = Nil
    /\ store["oidcClaims"] = Nil
    /\ store["oidcState"] = Nil
    /\ store["oidcOriginalRequestUrl"] = Nil

(***************************************************************************)
(* C15.  Startup resolves the logout endpoint before any handler exists.   *)
(* If discovery or reading the metadata fails, no handler is created.      *)
(* Otherwise the logout endpoint is the metadata's end_session_endpoint    *)
(* when there is one, and else the issuer URL with the path segment        *)
(* protocol/openid-connect/logout appended to its path as a segment of its *)
(* own; it is set whenever a request is served, and it is where a logout   *)
(* with a token redirects.                                                 *)
(***************************************************************************)
C15_LogoutEndpointResolvedAtStartup ==
  /\ handlers => (provider.discovery /\ provider.claims)
  /\ handlers => ~LogoutUrl.nil
  /\ \A k \in Slots : reqs[k].busy => (handlers /\ ~LogoutUrl.nil)
  /\ (handlers /\ provider.end_session_endpoint.ok) =>
       Join(URLText(LogoutUrl)) = Join(provider.end_session_endpoint.text)
  /\ (handlers /\ ~provider.end_session_endpoint.ok) =>
       /\ LogoutUrl.scheme = i.Issuer.scheme
       /\ LogoutUrl.host = i.Issuer.host
       /\ Join(LogoutUrl.path) =
            Join(TrimSuffix(i.Issuer.path, "/")) \o "/protocol/openid-connect/logout"
  /\ (LastIs("LogoutHandler") /\ HoldsToken(last.before)) =>
       last.c.location.base = Join(URLText(LogoutUrl))

(***************************************************************************)
(* C16.  Apart from the configuration and the verifier, no process-wide    *)
(* variable is written while a request is handled: the random source is    *)
(* as the package initialisation left it, and the state token of a login   *)
(* redirect is the same whatever requests ran before it or run with it.    *)
(***************************************************************************)
C16_NoProcessWideWrites ==
  /\ src = NewSource
  /\ (LastIsLogin /\ last.saved) => issued.state = RandomString(StateLen, NewSource).b

Paired(sess) ==
  \/ sess["oidcState"] = Nil /\ sess["oidcOriginalRequestUrl"] = Nil
  \/ \E p \in pairs :
       /\ sess["oidcState"] = Str(p.state)
       /\ sess["oidcOriginalRequestUrl"] = Str(p.url)

C18_StateAndUrlWrittenTogether ==
  /\ Paired(store)
  /\ \A k \in Slots : reqs[k].busy => Paired(reqs[k].sess)
  /\ LastMatched =>
       /\ IsString(last.before["oidcOriginalRequestUrl"])
       /\ \A n \in 1..Len(last.c.errors) :
            last.c.errors[n] # "failed to parse originalRequestUrl [not ok]"
       /\ Has(last.c.log, "Redirect") =>
            \E p \in pairs :
              /\ p.state = Query(last.req, "state")
              /\ last.c.location = Location(p.url, NoQuery)

\* after two login redirects, a callback matched the state stored and was
\* redirected to the URL stored with it
C18_Witness ==
  /\ Cardinality(pairs) = 2
  /\ LastMatched
  /\ Has(last.c.log, "Redirect")
  /\ last.c.location.base = last.before["oidcOriginalRequestUrl"].s
  /\ store["oidcState"] = Nil
  /\ store["oidcOriginalRequestUrl"] = Nil

(***************************************************************************)
(* C19 as stated.  Once a logout has completed (and saved), the persisted  *)
(* session becomes authorized again only through a callback that validated *)
(* a state issued by a gate redirect performed after that logout; a        *)
(* callback that had loaded the session before the logout saved never      *)
(* re-authorizes it.                                                       *)
(***************************************************************************)
IssuedInEpoch(state, n) == \E p \in pairs : p.state = state /\ p.epoch = n

C19_NoReauthorizationAcrossLogout ==
  (epoch > 0 /\ last.saved /\ Authorized(store)) =>
    /\ LastMatched
    /\ last.epoch = epoch
    /\ IssuedInEpoch(Query(last.req, "state"), epoch)

(***************************************************************************)
(* C19 amended.  The persisted session becomes authorized only through a   *)
(* callback that validated a state issued by a gate redirect; a callback   *)
(* that loaded the session after the latest saved logout validated a state *)
(* issued after that logout.  (A callback that had loaded the session      *)
(* before the logout saved still completes on what it loaded.)             *)
(***************************************************************************)
C19_ReauthorizedOnlyByCallback ==
  (last.saved /\ Authorized(store)) =>
    /\ LastMatched
    /\ Query(last.req, "state") \in StatesIssued
    /\ last.epoch = epoch => IssuedInEpoch(Query(last.req, "state"), epoch)

\* logout, then a new login: gate redirect and callback, both after the logout
C19_Witness ==
  /\ epoch = 1
  /\ LastIs("CallbackHandler")
  /\ last.saved
  /\ last.epoch = 1
  /\ Authorized(store)
  /\ IssuedInEpoch(Query(last.req, "state"), 1)

(***************************************************************************)
(* C20.  A gate request rejected because the stored ID token fails         *)
(* re-verification leaves the session as it loaded it and saves nothing    *)
(* (authorized stays true, the token and the claims stay stored), and      *)
(* starts no login redirect.  So every gate request on an authorized       *)
(* session with a token is rejected in this way for as long as the         *)
(* verifier rejects the token; a logout is what clears the session.        *)
(***************************************************************************)
Rejected(before, sess, c, saved) ==
  /\ c.aborted
  /\ c.log = <<"Verify", "Error", "ErrorHandler", "Abort">>
  /\ c.errors = <<"failed to verify id token [oidc: failed to verify]">>
  /\ c.location = NoLocation
  /\ ~saved
  /\ sess = before

C20_RejectedGateKeepsSession ==
  /\ (LastIs("AuthHandler") /\ last.c.aborted) =>
       /\ HoldsToken(last.before)
       /\ Rejected(last.before, last.sess, last.c, last.saved)
       /\ last.sess["oidcAuthorized"] = last.before["oidcAuthorized"]
       /\ last.sess["oidcIDToken"] = last.before["oidcIDToken"]
       /\ last.sess["oidcClaims"] = last.before["oidcClaims"]
       /\ ~last.fatal
       /\ last.fresh => store = last.before
  /\ \A k \in Slots :
       (/\ reqs[k].busy
        /\ reqs[k].req.handler = "AuthHandler"
        /\ Authorized(reqs[k].sess)
        /\ HoldsToken(reqs[k].sess)) =>
         \A env \in AuthEnvs :
           ~env.verify =>
             LET r == protectMiddleware(reqs[k].sess, reqs[k].req, env, src)
             IN Rejected(reqs[k].sess, r.sess, r.c, r.saved)

\* the visitor logged in, and the next gate request was rejected: the
\* persisted session is still authorized and still holds the token
C20_Witness ==
  /\ LastIs("AuthHandler")
  /\ last.c.aborted
  /\ last.req.url.path = "/reports"
  /\ Authorized(store)
  /\ HoldsToken(store)
  /\ store = last.before
  /\ IsString(store["oidcClaims"])
====
